---- MODULE Spec2Model ----
(***************************************************************************)
(* Model of the Confluence form-completion MCP server (mcp_server.py).     *)
(*                                                                         *)
(* Text is modelled as a sequence of one-character strings, so that the    *)
(* substring tests, str.replace, str.lower and the regular expressions of  *)
(* the source are computed character by character.                         *)
(***************************************************************************)
EXTENDS Integers, Sequences, FiniteSets, TLC

VARIABLES
    store,              \* the external page store: page id -> page
    created,            \* pages created through create_page, in order
    env,                \* per process: the three CONFLUENCE_* variables are set
                        \* (the processes being alike, only w2 may lack them)
    confluence_client,  \* per process: the global client (FALSE = None)
    inv,                \* per process: the tool call being served / last served
    served,             \* per process: outcome of each finished tool call
    pure                \* input and output of a text function applied alone

orchVars == <<store, created, env, confluence_client, inv, served>>
vars == <<store, created, env, confluence_client, inv, served, pure>>

(***************************************************************************)
(* Bounds                                                                  *)
(***************************************************************************)
MaxClassifyFrags == 2  \* fragments concatenated into a content to classify
MaxExtractFrags == 3   \* fragments concatenated into a content to extract from
MaxMergeFrags == 2     \* fragments concatenated into a content to merge into
MaxFields == 2         \* entries of a form_data mapping in the text specs
MaxCalls == 2          \* tool calls started in one run, over all processes

(***************************************************************************)
(* Characters and Python string primitives                                 *)
(***************************************************************************)
UpperLetters == <<"A","B","C","D","E","F","G","H","I","J","K","L","M","N","O","P","Q","R","S","T","U","V","W","X","Y","Z">>
LowerLetters == <<"a","b","c","d","e","f","g","h","i","j","k","l","m","n","o","p","q","r","s","t","u","v","w","x","y","z">>
Digits == <<"0","1","2","3","4","5","6","7","8","9">>

Range(f) == {f[i] : i \in DOMAIN f}

UpperSet == Range(UpperLetters)
LowerSet == Range(LowerLetters)
DigitSet == Range(Digits)

IsUpper(c) == c \in UpperSet
IsLowerCh(c) == c \in LowerSet
IsLetter(c) == IsUpper(c) \/ IsLowerCh(c)
IsDigit(c) == c \in DigitSet

\* \w of the re module, on ASCII text
IsWord(c) == IsLetter(c) \/ IsDigit(c) \/ c = "_"

IndexIn(c, letters) == CHOOSE i \in DOMAIN letters : letters[i] = c

ch_lower(c) == IF IsUpper(c) THEN LowerLetters[IndexIn(c, UpperLetters)] ELSE c
ch_upper(c) == IF IsLowerCh(c) THEN UpperLetters[IndexIn(c, LowerLetters)] ELSE c

\* str.lower()
str_lower(s) == [i \in 1..Len(s) |-> ch_lower(s[i])]

\* "".join(parts)
RECURSIVE str_join(_)
str_join(parts) ==
    IF parts = <<>> THEN <<>> ELSE Head(parts) \o str_join(Tail(parts))

\* s[i:].startswith(sub), 1-based
StartsAt(s, i, sub) ==
    /\ i >= 1
    /\ i + Len(sub) - 1 <= Len(s)
    /\ \A k \in 1..Len(sub) : s[i + k - 1] = sub[k]

\* sub in s
str_contains(s, sub) == \E i \in 1..(Len(s) + 1) : StartsAt(s, i, sub)

\* s.replace(old, new) for a non-empty old: leftmost, non-overlapping
RECURSIVE str_replace_from(_, _, _, _)
str_replace_from(s, i, old, new) ==
    IF i > Len(s) THEN <<>>
    ELSE IF StartsAt(s, i, old)
         THEN new \o str_replace_from(s, i + Len(old), old, new)
         ELSE <<s[i]>> \o str_replace_from(s, i + 1, old, new)

str_replace(s, old, new) == str_replace_from(s, 1, old, new)

\* index just past the longest run of \w starting at i
RECURSIVE WordRunEnd(_, _)
WordRunEnd(s, i) ==
    IF i <= Len(s) /\ IsWord(s[i]) THEN WordRunEnd(s, i + 1) ELSE i

\* index just past the longest run of [^>] starting at i
RECURSIVE NotGtRunEnd(_, _)
NotGtRunEnd(s, i) ==
    IF i <= Len(s) /\ s[i] # ">" THEN NotGtRunEnd(s, i + 1) ELSE i

\* index just past the longest run of [^"] starting at i
RECURSIVE NotQuoteRunEnd(_, _)
NotQuoteRunEnd(s, i) ==
    IF i <= Len(s) /\ s[i] # "\"" THEN NotQuoteRunEnd(s, i + 1) ELSE i

(***************************************************************************)
(* Form-kind classification (complete_form, lines 145-147)                 *)
(***************************************************************************)
SmartFormsDomain == <<"s","m","a","r","t","-","f","o","r","m","s",".","s","a","a","s","j","e","t",".","c","o","m">>
IframeWord == <<"i","f","r","a","m","e">>

is_smart_forms_nolower(current_content) ==
    \/ str_contains(current_content, SmartFormsDomain)
    \/ str_contains(current_content, IframeWord)

is_smart_forms(current_content) ==
    \/ str_contains(current_content, SmartFormsDomain)
    \/ str_contains(str_lower(current_content), IframeWord)

classify(current_content) ==
    IF is_smart_forms(current_content) THEN "EXTERNAL" ELSE "NATIVE"

(***************************************************************************)
(* Field extraction (extract_form_fields)                                  *)
(***************************************************************************)
TextType == <<"t","e","x","t">>
NameEqQuote == <<"n","a","m","e","=","\"">>
TypeEqQuote == <<"t","y","p","e","=","\"">>
ValueEqQuote == <<"v","a","l","u","e","=","\"">>
OpenBraces == <<"{","{">>
CloseBraces == <<"}","}">>

\* r'\{\{(\w+)\}\}' tried at position i: [end |-> index past the match, 0 if none]
placeholder_match(s, i) ==
    IF StartsAt(s, i, OpenBraces)
    THEN LET e == WordRunEnd(s, i + 2)
         IN  IF e > i + 2 /\ StartsAt(s, e, CloseBraces)
             THEN [end |-> e + 2, name |-> SubSeq(s, i + 2, e - 1)]
             ELSE [end |-> 0, name |-> <<>>]
    ELSE [end |-> 0, name |-> <<>>]

\* re.findall(placeholder_pattern, content)
RECURSIVE placeholders_from(_, _)
placeholders_from(s, i) ==
    IF i > Len(s) THEN <<>>
    ELSE LET m == placeholder_match(s, i)
         IN  IF m.end # 0
             THEN <<m.name>> \o placeholders_from(s, m.end)
             ELSE placeholders_from(s, i + 1)

\* (?:type="(\w+)")? tried at position f, after the greedy [^>]* has stopped:
\* group 2, <<>> when the group did not take part (None)
type_group_at(s, f) ==
    IF StartsAt(s, f, TypeEqQuote)
    THEN LET e == WordRunEnd(s, f + 6)
         IN  IF e > f + 6 /\ StartsAt(s, e, <<"\"">>)
             THEN [end |-> e + 1, type |-> SubSeq(s, f + 6, e - 1)]
             ELSE [end |-> f, type |-> <<>>]
    ELSE [end |-> f, type |-> <<>>]

\* r'name="(\w+)"[^>]*(?:type="(\w+)")?' tried at position i. The greedy
\* [^>]* runs to the next '>' or the end of the text; the optional group is
\* then tried there, and since the empty alternative always succeeds the
\* engine never backtracks into [^>]*.
input_match(s, i) ==
    IF StartsAt(s, i, NameEqQuote)
    THEN LET e == WordRunEnd(s, i + 6)
         IN  IF e > i + 6 /\ StartsAt(s, e, <<"\"">>)
             THEN LET f == NotGtRunEnd(s, e + 1)
                      t == type_group_at(s, f)
                  IN  [end |-> t.end, name |-> SubSeq(s, i + 6, e - 1),
                       type |-> t.type]
             ELSE [end |-> 0, name |-> <<>>, type |-> <<>>]
    ELSE [end |-> 0, name |-> <<>>, type |-> <<>>]

\* re.finditer(input_pattern, content)
RECURSIVE inputs_from(_, _)
inputs_from(s, i) ==
    IF i > Len(s) THEN <<>>
    ELSE LET m == input_match(s, i)
         IN  IF m.end # 0
             THEN <<m>> \o inputs_from(s, m.end)
             ELSE inputs_from(s, i + 1)

placeholder_fields(content) ==
    LET ps == placeholders_from(content, 1)
    IN  [k \in 1..Len(ps) |->
            [name |-> ps[k], type |-> TextType, source |-> "placeholder"]]

\* fs without the descriptors whose name an earlier one of fs has
RECURSIVE first_of_each_name(_, _)
first_of_each_name(fs, k) ==
    IF k > Len(fs) THEN <<>>
    ELSE IF \E j \in 1..(k - 1) : fs[j].name = fs[k].name
    THEN first_of_each_name(fs, k + 1)
    ELSE <<fs[k]>> \o first_of_each_name(fs, k + 1)

\* a form-input pass that reports each name once
input_fields_unique(content) ==
    LET ms == inputs_from(content, 1)
    IN  first_of_each_name(
            [k \in 1..Len(ms) |->
                [name |-> ms[k].name,
                 type |-> IF ms[k].type # <<>> THEN ms[k].type ELSE TextType,
                 source |-> "form_input"]], 1)

input_fields(content) ==
    LET ms == inputs_from(content, 1)
    IN  [k \in 1..Len(ms) |->
            [name |-> ms[k].name,
             type |-> IF ms[k].type # <<>> THEN ms[k].type ELSE TextType,
             source |-> "form_input"]]

extract_form_fields_inputs_first(content) ==
    input_fields(content) \o placeholder_fields(content)

extract_form_fields(content) ==
    placeholder_fields(content) \o input_fields(content)

(***************************************************************************)
(* Form data: a dict in insertion order, as a sequence of entries          *)
(* [name, value]; a value is a str (t = "str", text s) or an int           *)
(* (t = "int", number n).                                                  *)
(***************************************************************************)
StrVal(s) == [t |-> "str", s |-> s, n |-> 0]
IntVal(n) == [t |-> "int", s |-> <<>>, n |-> n]
Field(name, value) == [name |-> name, value |-> value]

\* str(n) for n >= 0
RECURSIVE int_str(_)
int_str(n) ==
    IF n < 10 THEN <<Digits[n + 1]>>
    ELSE int_str(n \div 10) \o <<Digits[(n % 10) + 1]>>

\* str(field_value), also what an f-string formats
py_str(v) == IF v.t = "int" THEN int_str(v.n) ELSE v.s

\* list(form_data.keys())
dict_keys(form_data) == [k \in 1..Len(form_data) |-> form_data[k].name]

DistinctNames(form_data) ==
    \A i, j \in 1..Len(form_data) :
        form_data[i].name = form_data[j].name => i = j

(***************************************************************************)
(* Content merge (update_form_fields)                                      *)
(***************************************************************************)
Backslash == "\\"
Quote == "\""

\* the escapes a replacement template turns into one character
\* (sre_parse.ESCAPES); BEL, BS and VT have no TLA+ escape and are tokens
TemplateEscape(c) ==
    CASE c = "n" -> "\n"
      [] c = "t" -> "\t"
      [] c = "r" -> "\r"
      [] c = "f" -> "\f"
      [] c = "a" -> "<BEL>"
      [] c = "b" -> "<BS>"
      [] c = "v" -> "<VT>"
      [] OTHER -> "\\"

IsTemplateEscape(c) == c \in {"n", "t", "r", "f", "a", "b", "v", Backslash}

\* The replacement string of re.sub is a template: re.sub parses it before
\* it looks for any match. The pattern of update_form_fields has no groups,
\* so a backslash followed by a digit is a reference to a group that does
\* not exist, and a backslash followed by any other ASCII letter than an
\* escape is a bad escape: both raise re.error. (Octal escapes and \g<0> do
\* not occur in the values drawn here.)
RECURSIVE parse_template_from(_, _)
parse_template_from(t, i) ==
    IF i > Len(t) THEN [ok |-> TRUE, lit |-> <<>>]
    ELSE IF t[i] # Backslash
    THEN LET r == parse_template_from(t, i + 1)
         IN  [ok |-> r.ok, lit |-> <<t[i]>> \o r.lit]
    ELSE IF i = Len(t) THEN [ok |-> FALSE, lit |-> <<>>]
    ELSE LET c == t[i + 1]
             r == parse_template_from(t, i + 2)
         IN  IF IsTemplateEscape(c)
             THEN [ok |-> r.ok, lit |-> <<TemplateEscape(c)>> \o r.lit]
             ELSE IF IsLetter(c) \/ IsDigit(c)
             THEN [ok |-> FALSE, lit |-> <<>>]
             ELSE [ok |-> r.ok, lit |-> <<Backslash, c>> \o r.lit]

parse_template(t) == parse_template_from(t, 1)

SetMax(S) == CHOOSE x \in S : \A y \in S : y <= x

\* 'name="<re.escape(field_name)>"[^>]*value="[^"]*"' tried at position i:
\* the index past the match, 0 if none. re.escape makes the name match
\* itself literally. The greedy [^>]* runs to the next '>' and backtracks to
\* the last place in that run where value="..." (with its closing quote)
\* matches.
value_match(s, i, field_name) ==
    LET lit == NameEqQuote \o field_name \o <<Quote>>
    IN  IF StartsAt(s, i, lit)
        THEN LET e == i + Len(lit)
                 f == NotGtRunEnd(s, e)
                 cands == {j \in e..f :
                             /\ StartsAt(s, j, ValueEqQuote)
                             /\ NotQuoteRunEnd(s, j + 7) <= Len(s)}
             IN  IF cands = {} THEN 0
                 ELSE NotQuoteRunEnd(s, SetMax(cands) + 7) + 1
        ELSE 0

RECURSIVE re_sub_from(_, _, _, _)
re_sub_from(s, i, field_name, lit) ==
    IF i > Len(s) THEN <<>>
    ELSE LET e == value_match(s, i, field_name)
         IN  IF e # 0
             THEN lit \o re_sub_from(s, e, field_name, lit)
             ELSE <<s[i]>> \o re_sub_from(s, i + 1, field_name, lit)

\* re.sub(pattern, replacement, updated_content) of line 262
re_sub(field_name, replacement, s) ==
    LET t == parse_template(replacement)
    IN  IF t.ok
        THEN [ok |-> TRUE, content |-> re_sub_from(s, 1, field_name, t.lit)]
        ELSE [ok |-> FALSE, content |-> <<>>]

\* one iteration of the loop of update_form_fields
update_one_field(updated_content, field_name, field_value) ==
    LET placeholder == OpenBraces \o field_name \o CloseBraces
        c1 == IF str_contains(updated_content, placeholder)
              THEN str_replace(updated_content, placeholder, py_str(field_value))
              ELSE updated_content
        replacement == NameEqQuote \o field_name \o <<Quote, " ">>
                       \o ValueEqQuote \o py_str(field_value) \o <<Quote>>
    IN  re_sub(field_name, replacement, c1)

RECURSIVE update_fields_from(_, _, _)
update_fields_from(updated_content, form_data, k) ==
    IF k > Len(form_data) THEN [ok |-> TRUE, content |-> updated_content]
    ELSE LET r == update_one_field(updated_content, form_data[k].name,
                                   form_data[k].value)
         IN  IF r.ok THEN update_fields_from(r.content, form_data, k + 1)
             ELSE r

\* update_form_fields(content, form_data): ok = FALSE when re.error is raised
update_form_fields(content, form_data) ==
    update_fields_from(content, form_data, 1)

(***************************************************************************)
(* Summary rendering (create_form_summary_page)                            *)
(***************************************************************************)
AmpEntity == <<"&","a","m","p",";">>
LtEntity == <<"&","l","t",";">>
GtEntity == <<"&","g","t",";">>

escape_html_amp_last(text) ==
    str_replace(str_replace(str_replace(text, <<"<">>, LtEntity),
                            <<">">>, GtEntity),
                <<"&">>, AmpEntity)

\* str(field_value).replace("&", "&amp;").replace("<", "&lt;").replace(">", "&gt;")
escape_html(text) ==
    str_replace(str_replace(str_replace(text, <<"&">>, AmpEntity),
                            <<"<">>, LtEntity),
                <<">">>, GtEntity)

\* str.title(): a letter is upper-cased after a non-letter, lower-cased after a letter
str_title(s) ==
    [i \in 1..Len(s) |->
        IF i > 1 /\ IsLetter(s[i - 1]) THEN ch_lower(s[i]) ELSE ch_upper(s[i])]

RowOpen == <<"<","t","r",">","<","t","d",">","<","s","t","r","o","n","g",">">>
RowMid == <<"<","/","s","t","r","o","n","g",">","<","/","t","d",">","<","t","d",">">>
RowClose == <<"<","/","t","d",">","<","/","t","r",">">>

summary_row(field_name, field_value) ==
    LET field_value_str == escape_html(py_str(field_value))
        field_name_str == str_title(str_replace(field_name, <<"_">>, <<" ">>))
    IN  RowOpen \o field_name_str \o RowMid \o field_value_str \o RowClose

summary_rows(form_data) ==
    [k \in 1..Len(form_data) |->
        summary_row(form_data[k].name, form_data[k].value)]

SummaryHead(title, timestamp) ==
    <<"<","h","2",">","F","o","r","m"," ","S","u","b","m","i","s","s","i","o","n"," ","S","u","m","m","a","r","y","<","/","h","2",">">>
    \o <<"<","p",">","<","s","t","r","o","n","g",">","S","u","b","m","i","t","t","e","d",":","<","/","s","t","r","o","n","g",">"," ">>
    \o timestamp \o <<"<","/","p",">">>
    \o <<"<","p",">","<","s","t","r","o","n","g",">","O","r","i","g","i","n","a","l"," ","F","o","r","m",":","<","/","s","t","r","o","n","g",">"," ">>
    \o title \o <<"<","/","p",">">>
    \o <<"<","h","r","/",">">>
    \o <<"<","h","3",">","S","u","b","m","i","t","t","e","d"," ","D","a","t","a","<","/","h","3",">">>
    \o <<"<","t","a","b","l","e",">">>
    \o <<"<","t","r",">","<","t","h",">","F","i","e","l","d","<","/","t","h",">","<","t","h",">","V","a","l","u","e","<","/","t","h",">","<","/","t","r",">">>

SummaryTail ==
    <<"<","/","t","a","b","l","e",">">>
    \o <<"<","h","r","/",">">>
    \o <<"<","p",">","<","e","m",">","T","h","i","s"," ","s","u","b","m","i","s","s","i","o","n"," ","w","a","s"," ","a","u","t","o","m","a","t","i","c","a","l","l","y"," ","c","r","e","a","t","e","d"," ","b","y"," ","t","h","e"," ","C","o","n","f","l","u","e","n","c","e"," ","M","C","P"," ","S","e","r","v","e","r",".","<","/","e","m",">","<","/","p",">">>

\* create_form_summary_page(form_data, original_page); timestamp is the
\* formatted datetime.utcnow() of line 307
create_form_summary_page(form_data, original_page, timestamp) ==
    SummaryHead(original_page.title, timestamp)
    \o str_join(summary_rows(form_data))
    \o SummaryTail

(***************************************************************************)
(* The page store and the processes serving tool calls                     *)
(***************************************************************************)
Procs == {"w1", "w2"}
PageIds == {"100", "200"}
None == "<None>"

IntakeTitle == <<"I","n","t","a","k","e">>
SurveyTitle == <<"S","u","r","v","e","y">>

\* page 100: a native form with a placeholder and an input for field x
NativeContent ==
    <<"{","{","x","}","}","<","i","n","p","u","t"," ">> \o NameEqQuote
    \o <<"x","\""," ">> \o ValueEqQuote \o <<"\"",">">>

\* page 200: an embedded third-party form
ExternalContent == <<"<","I","F","r","a","m","e"," ","s","r","c","=","\"","f","\"",">">>

InitialStore(v1, v2) ==
    [id \in PageIds |->
        IF id = "100"
        THEN [title |-> IntakeTitle, space |-> "SI", content |-> NativeContent,
              version |-> v1]
        ELSE [title |-> SurveyTitle, space |-> "HR", content |-> ExternalContent,
              version |-> v2]]

NoPage == [title |-> <<>>, space |-> None, content |-> <<>>, version |-> 0]

\* what a function hands back: a value it returns or an exception it raises;
\* msg is the exception message, body the result dict (json.dumps of it)
NoBody == [shape |-> "none"]
Return(body) == [kind |-> "return", error |-> FALSE, msg |-> <<>>, body |-> body]
Raise(msg) == [kind |-> "raise", error |-> TRUE, msg |-> msg, body |-> NoBody]
NoResult == [kind |-> "none", error |-> FALSE, msg |-> <<>>, body |-> NoBody]

IdleInv ==
    [pc |-> "idle", name |-> None, arguments |-> <<>>, page |-> NoPage,
     calls |-> <<>>, result |-> NoResult]

\* the orchestration at rest, while a text function is applied alone
OrchPinned ==
    /\ store = InitialStore(1, 1)
    /\ created = <<>>
    /\ env = [p \in Procs |-> TRUE]
    /\ confluence_client = [p \in Procs |-> FALSE]
    /\ inv = [p \in Procs |-> IdleInv]
    /\ served = [p \in Procs |-> <<>>]

SeqsUpTo(S, n) == UNION {[1..k -> S] : k \in 0..n}

FormDatasOver(names, values, n) ==
    {fd \in SeqsUpTo({Field(nm, v) : nm \in names, v \in values}, n) :
        DistinctNames(fd)}

(***************************************************************************)
(* classify applied alone                                                  *)
(***************************************************************************)
ClassifyFragments ==
    { IframeWord,
      <<"I","F","R","A","M","E">>,
      <<"i","F","r","a","m","e">>,
      <<"i","f","r","a","m">>,
      <<"e">>, <<"E">>, <<"<">>, <<" ">>,
      SmartFormsDomain,
      <<"S","m","a","r","t","-","F","o","r","m","s",".","s","a","a","s","j","e","t",".","c","o","m">>,
      <<"s","m","a","r","t","-","f","o","r","m","s",".","s","a","a","s","j","e","t",".","c","o">>,
      <<"m">>, <<"M">>, <<"f","r","a","m","e">> }

ClassifyInit ==
    /\ OrchPinned
    /\ pure \in {[fn |-> "input", content |-> str_join(fs)] :
                    fs \in SeqsUpTo(ClassifyFragments, MaxClassifyFrags)}

DoClassify ==
    /\ pure.fn = "input"
    /\ pure' = [fn |-> "classify", content |-> pure.content,
                out |-> classify(pure.content)]
    /\ UNCHANGED orchVars

ClassifySpec == ClassifyInit /\ [][DoClassify]_vars

\* the literal host domain occurs in c
HasDomainLiteral(c) ==
    \E i \in 1..Len(c) :
        \A k \in 1..Len(SmartFormsDomain) :
            i + k - 1 <= Len(c) /\ c[i + k - 1] = SmartFormsDomain[k]

\* "iframe" occurs in c in any mix of upper and lower case
HasIframeAnyCase(c) ==
    \E i \in 1..Len(c) :
        \A k \in 1..Len(IframeWord) :
            /\ i + k - 1 <= Len(c)
            /\ c[i + k - 1] \in {IframeWord[k], ch_upper(IframeWord[k])}

\* C7: classify(content) is EXTERNAL iff content contains the literal host
\* domain 'smart-forms.saasjet.com' or contains 'iframe' in any letter case;
\* for every other content it is NATIVE.
C7_ClassifyRule ==
    pure.fn = "classify" =>
        /\ pure.out \in {"EXTERNAL", "NATIVE"}
        /\ pure.out = "EXTERNAL" <=>
              (HasDomainLiteral(pure.content) \/ HasIframeAnyCase(pure.content))

\* a content with a mixed-case iframe and no host domain, classified EXTERNAL
C7_Witness ==
    /\ pure.fn = "classify"
    /\ pure.out = "EXTERNAL"
    /\ ~HasDomainLiteral(pure.content)
    /\ ~str_contains(pure.content, IframeWord)
    /\ HasIframeAnyCase(pure.content)

(***************************************************************************)
(* extract_form_fields applied alone                                       *)
(***************************************************************************)
ExtractFragments ==
    { <<"{","{","a","}","}">>,
      <<"{","{","b","_","1","}","}">>,
      <<"{","{">>, <<"}","}">>, <<"{">>, <<"a">>, <<"-">>, <<">">>, <<"\"">>,
      NameEqQuote \o <<"a","\"">>,
      NameEqQuote \o <<"b","_","1","\"">>,
      NameEqQuote,
      <<" ">> \o TypeEqQuote \o <<"c","h","e","c","k","b","o","x","\"">>,
      <<"<","i","n","p","u","t"," ">> }

ExtractInit ==
    /\ OrchPinned
    /\ pure \in {[fn |-> "input", content |-> str_join(fs)] :
                    fs \in SeqsUpTo(ExtractFragments, MaxExtractFrags)}

DoExtract ==
    /\ pure.fn = "input"
    /\ pure' = [fn |-> "extract", content |-> pure.content,
                out |-> extract_form_fields(pure.content)]
    /\ UNCHANGED orchVars

ExtractSpec == ExtractInit /\ [][DoExtract]_vars

\* number of word characters of the identifier starting at i, when it is
\* closed by `close` right after; 0 when there is no such identifier
IdentLen(c, i, close) ==
    LET ns == {n \in 1..Len(c) :
                 /\ \A k \in 0..(n - 1) : i + k <= Len(c) /\ IsWord(c[i + k])
                 /\ StartsAt(c, i + n, close)}
    IN  IF ns = {} THEN 0 ELSE CHOOSE n \in ns : TRUE

\* positions where a {{identifier}} token starts
PlaceholderStarts(c) ==
    {i \in 1..Len(c) :
        StartsAt(c, i, OpenBraces) /\ IdentLen(c, i + 2, CloseBraces) > 0}

\* positions where name="identifier" stands
NameAttrAt(c, i) ==
    StartsAt(c, i, NameEqQuote) /\ IdentLen(c, i + 6, <<Quote>>) > 0

\* positions where a form-input match starts: a name attribute that no
\* earlier match (which runs on to the next '>') has consumed
InputStarts(c) ==
    {i \in 1..Len(c) :
        /\ NameAttrAt(c, i)
        /\ ~\E j \in 1..(i - 1) :
              NameAttrAt(c, j) /\ \A k \in j..(i - 1) : c[k] # ">"}

KthSmallest(S, k) == CHOOSE x \in S : Cardinality({y \in S : y < x}) = k - 1

\* C8: extract_fields returns the placeholder descriptors in text order,
\* then the form-input descriptors in text order, one per match (no
\* deduplication of names across the passes); content with no placeholder
\* and no input yields the empty sequence.
C8_ExtractOrder ==
    pure.fn = "extract" =>
        LET c == pure.content
            ps == PlaceholderStarts(c)
            is == InputStarts(c)
            np == Cardinality(ps)
            ni == Cardinality(is)
        IN  /\ Len(pure.out) = np + ni
            /\ \A k \in 1..np :
                  LET i == KthSmallest(ps, k)
                  IN  /\ pure.out[k].source = "placeholder"
                      /\ pure.out[k].name =
                            SubSeq(c, i + 2, i + 1 + IdentLen(c, i + 2, CloseBraces))
            /\ \A k \in 1..ni :
                  LET i == KthSmallest(is, k)
                  IN  /\ pure.out[np + k].source = "form_input"
                      /\ pure.out[np + k].name =
                            SubSeq(c, i + 6, i + 5 + IdentLen(c, i + 6, <<Quote>>))
            /\ (ps = {} /\ is = {}) => pure.out = <<>>

\* an input named a stands before a placeholder named a: both are reported,
\* the placeholder first
C8_Witness ==
    /\ pure.fn = "extract"
    /\ Len(pure.out) = 2
    /\ pure.out[1].source = "placeholder"
    /\ pure.out[2].source = "form_input"
    /\ pure.out[1].name = pure.out[2].name
    /\ \E i \in InputStarts(pure.content) :
          \E j \in PlaceholderStarts(pure.content) : i < j

(***************************************************************************)
(* update_form_fields applied alone                                        *)
(***************************************************************************)
MergeFragments ==
    { <<"{","{","a","}","}">>,
      <<"{","{","b","}","}">>,
      <<"<","i","n","p","u","t"," ">> \o NameEqQuote \o <<"a","\""," ">> \o ValueEqQuote \o <<"o","l","d","\"",">">>,
      NameEqQuote \o <<"a","\""," ">> \o TypeEqQuote \o <<"t","\""," ">> \o ValueEqQuote \o <<"o","\"">>,
      NameEqQuote \o <<"b","\"">>,
      <<" ">> \o ValueEqQuote \o <<"z",">","\"">>,
      <<">">>, <<"x">>, <<"\"">> }

MergeNames == {<<"a">>, <<"b">>}

MergeValues ==
    { StrVal(<<"v">>), StrVal(<<"C",":","\\","q">>), StrVal(<<"\\","n">>),
      StrVal(<<"\\","1">>), StrVal(<<"\\">>), StrVal(<<"{","{","b","}","}">>),
      StrVal(<<"\"">>), IntVal(17) }

MergeInit ==
    /\ OrchPinned
    /\ pure \in {[fn |-> "input", content |-> str_join(fs), data |-> fd] :
                    fs \in SeqsUpTo(MergeFragments, MaxMergeFrags),
                    fd \in FormDatasOver(MergeNames, MergeValues, MaxFields)}

DoMerge ==
    /\ pure.fn = "input"
    /\ pure' = [fn |-> "merge", content |-> pure.content, data |-> pure.data,
                out |-> update_form_fields(pure.content, pure.data)]
    /\ UNCHANGED orchVars

\* update_form_fields applied once more, to what it returned, with the same
\* form_data
DoMergeAgain ==
    /\ pure.fn = "merge"
    /\ pure.out.ok
    /\ pure' = [fn |-> "merge_again", content |-> pure.content,
                data |-> pure.data, out |-> pure.out,
                again |-> update_form_fields(pure.out.content, pure.data)]
    /\ UNCHANGED orchVars

MergeSpec == MergeInit /\ [][DoMerge \/ DoMergeAgain]_vars

\* neither the {{name}} token nor the name="name" ... value="..." pattern of
\* the field occurs in c
FieldAbsent(c, f) ==
    /\ ~str_contains(c, OpenBraces \o f.name \o CloseBraces)
    /\ \A i \in 1..Len(c) : value_match(c, i, f.name) = 0

\* C9: a field whose placeholder and input pattern do not occur in the
\* content raises no error and leaves the content unchanged, for any value;
\* merge(content, {}) is content.
C9_UnmatchedFieldsIgnored ==
    pure.fn = "merge" =>
        /\ (\A k \in 1..Len(pure.data) : FieldAbsent(pure.content, pure.data[k]))
              => (pure.out.ok /\ pure.out.content = pure.content)
        /\ \A k \in 1..Len(pure.data) :
              FieldAbsent(pure.content, pure.data[k]) =>
                  LET one == update_form_fields(pure.content, <<pure.data[k]>>)
                  IN  one.ok /\ one.content = pure.content
        /\ pure.data = <<>> =>
              (pure.out.ok /\ pure.out.content = pure.content)

(***************************************************************************)
(* create_form_summary_page applied alone                                  *)
(***************************************************************************)
Timestamps ==
    { <<"2","0","2","4","-","0","1","-","0","1"," ","0","0",":","0","0",":","0","0"," ","U","T","C">>,
      <<"2","0","2","5","-","1","2","-","3","1"," ","2","3",":","5","9",":","5","9"," ","U","T","C">> }

RenderNames == {<<"p","r","o","j","e","c","t","_","n","a","m","e">>, <<"p","r","i","o","r","i","t","y">>, <<"x">>}

BoldAmp == <<"<","b",">","&","<","/","b",">">>

RenderValues ==
    { StrVal(<<"X">>), StrVal(BoldAmp), StrVal(<<"a","&","b">>), StrVal(<<"&","l","t",";">>),
      StrVal(<<"1"," ","<"," ","2">>), IntVal(50000) }

RenderInit ==
    /\ OrchPinned
    /\ pure \in {[fn |-> "input", data |-> fd, title |-> t, timestamp |-> ts] :
                    fd \in FormDatasOver(RenderNames, RenderValues, MaxFields),
                    t \in {IntakeTitle}, ts \in Timestamps}

DoRender ==
    /\ pure.fn = "input"
    /\ pure' = [fn |-> "render", data |-> pure.data, title |-> pure.title,
                timestamp |-> pure.timestamp,
                out |-> create_form_summary_page(pure.data,
                            [title |-> pure.title], pure.timestamp)]
    /\ UNCHANGED orchVars

RenderSpec == RenderInit /\ [][DoRender]_vars

\* every character of text replaced on its own: & < > by their entities
EntityOf(c) ==
    CASE c = "&" -> AmpEntity
      [] c = "<" -> LtEntity
      [] c = ">" -> GtEntity
      [] OTHER -> <<c>>

EscapedOnce(text) == str_join([i \in 1..Len(text) |-> EntityOf(text[i])])

ExpectedRow(f) ==
    RowOpen \o str_title(str_replace(f.name, <<"_">>, <<" ">>)) \o RowMid
    \o EscapedOnce(py_str(f.value)) \o RowClose

\* C10: render_summary emits one table row per entry of form_data in mapping
\* order; in each row's value every & < > of the string-coerced value is
\* replaced by its entity exactly once (no entity is escaped again), so no
\* raw < or > of a value reaches the output.
C10_RowsEscaped ==
    pure.fn = "render" =>
        /\ pure.out = SummaryHead(pure.title, pure.timestamp)
                      \o str_join([k \in 1..Len(pure.data) |->
                                      ExpectedRow(pure.data[k])])
                      \o SummaryTail
        /\ \A k \in 1..Len(pure.data) :
              LET cell == EscapedOnce(py_str(pure.data[k].value))
              IN  \A i \in 1..Len(cell) : cell[i] \notin {"<", ">"}

\* the value <b>&</b> was rendered as &lt;b&gt;&amp;&lt;/b&gt; in the
\* second of two rows
C10_Witness ==
    /\ pure.fn = "render"
    /\ Len(pure.data) = 2
    /\ pure.data[2].value = StrVal(BoldAmp)
    /\ pure.data[1].value # StrVal(BoldAmp)
    /\ str_contains(pure.out,
          RowMid \o <<"&","l","t",";","b","&","g","t",";","&","a","m","p",";","&","l","t",";","/","b","&","g","t",";">> \o RowClose \o SummaryTail)

(***************************************************************************)
(* Page Sync Gateway: the external store, keyed by page id, with           *)
(* optimistic versioning. An update is accepted when it supplies the       *)
(* successor of the stored version, and the stored version becomes the     *)
(* supplied one in the same step.                                          *)
(***************************************************************************)
gateway_fetch(st, page_id) ==
    IF page_id \in DOMAIN st
    THEN [found |-> TRUE, page |-> st[page_id]]
    ELSE [found |-> FALSE, page |-> NoPage]

gateway_update(st, page_id, title, body, version) ==
    IF page_id \in DOMAIN st /\ version = st[page_id].version + 1
    THEN [ok |-> TRUE,
          store |-> [st EXCEPT ![page_id] =
                        [@ EXCEPT !.title = title, !.content = body,
                                  !.version = version]]]
    ELSE [ok |-> FALSE, store |-> st]

gateway_create(cr, space, title, body, parent_id) ==
    [id |-> Len(cr) + 1,
     created |-> Append(cr, [id |-> Len(cr) + 1, space |-> space,
                             title |-> title, body |-> body,
                             parent_id |-> parent_id])]

\* a Gateway call as the invocation issued it
BaseCall ==
    [op |-> "get_client", page_id |-> None, title |-> <<>>, body |-> <<>>,
     version |-> 0, space |-> None, parent_id |-> None, accepted |-> FALSE]
GetClientCall == BaseCall
FetchCall(page_id) == [BaseCall EXCEPT !.op = "fetch", !.page_id = page_id]
UpdateCall(page_id, title, body, version, accepted) ==
    [BaseCall EXCEPT !.op = "update", !.page_id = page_id, !.title = title,
                     !.body = body, !.version = version, !.accepted = accepted]
CreateCall(space, title, body, parent_id, accepted) ==
    [BaseCall EXCEPT !.op = "create", !.space = space, !.title = title,
                     !.body = body, !.parent_id = parent_id,
                     !.accepted = accepted]

(***************************************************************************)
(* Tool calls (call_tool, complete_form, get_form_structure)               *)
(***************************************************************************)
PreviewLen == 500

\* arguments.get(key, default)
arg_get(arguments, key, default) ==
    IF key \in DOMAIN arguments THEN arguments[key] ELSE default

\* not v, for a string or None
Falsy(v) == v = None \/ v = ""

\* form_data.get(key, default)
dict_get(form_data, key, default) ==
    IF \E k \in 1..Len(form_data) : form_data[k].name = key
    THEN py_str(form_data[CHOOSE k \in 1..Len(form_data) :
                              form_data[k].name = key].value)
    ELSE default

\* get_confluence_client(): raises when the client is not yet built and the
\* environment lacks the credentials
get_confluence_client(client, has_env) ==
    IF client THEN [ok |-> TRUE, client |-> TRUE]
    ELSE IF ~has_env THEN [ok |-> FALSE, client |-> FALSE]
    ELSE [ok |-> TRUE, client |-> TRUE]

validate_page_id_only(page_id, form_data) ==
    IF Falsy(page_id) THEN <<"page_id is required">> ELSE <<>>

\* lines 126-130: the message of the ValueError raised, <<>> when none is
validate_complete_form(page_id, form_data) ==
    IF Falsy(page_id) THEN <<"page_id is required">>
    ELSE IF form_data = <<>> THEN <<"form_data is required">>
    ELSE <<>>

resolve_space_key_from_page(space_key, page) == page.space

\* lines 142-143
resolve_space_key(space_key, page) ==
    IF Falsy(space_key) THEN page.space ELSE space_key

update_version_same(page) == page.version

\* line 180
update_version(page) == page.version + 1

\* line 151
summary_title(page, form_data) ==
    <<"F","o","r","m"," ","S","u","b","m","i","s","s","i","o","n",":"," ">> \o page.title \o <<" ","-"," ">>
    \o dict_get(form_data, <<"p","r","o","j","e","c","t","_","n","a","m","e">>, <<"N","e","w"," ","S","u","b","m","i","s","s","i","o","n">>)

Step(pc, client, page, calls, outcome) ==
    [pc |-> pc, client |-> client, page |-> page, calls |-> calls,
     outcome |-> outcome]

\* a complete_form that goes on to its write whatever the fetch returned
complete_form_start_unchecked(arguments, client, has_env, st, gw) ==
    LET page_id == arg_get(arguments, "page_id", None)
        form_data == arg_get(arguments, "form_data", <<>>)
        invalid == validate_complete_form(page_id, form_data)
        c == get_confluence_client(client, has_env)
        f == gateway_fetch(st, page_id)
    IN  IF invalid # <<>>
        THEN Step("done", client, NoPage, <<>>, Raise(invalid))
        ELSE IF ~c.ok
        THEN Step("done", c.client, NoPage, <<GetClientCall>>,
                  Raise(<<"Missing required Confluence environment variables">>))
        ELSE IF gw = "fail"
        THEN Step("done", c.client, NoPage,
                  <<GetClientCall, FetchCall(page_id)>>,
                  Raise(<<"UpstreamFailure">>))
        ELSE Step("fetched", c.client, f.page,
                  <<GetClientCall, FetchCall(page_id)>>, NoResult)

\* complete_form up to the return of the fetch (lines 121-139). gw is what
\* the Gateway does with the fetch: "ok" or "fail" (an upstream failure).
complete_form_start(arguments, client, has_env, st, gw) ==
    LET page_id == arg_get(arguments, "page_id", None)
        form_data == arg_get(arguments, "form_data", <<>>)
        invalid == validate_complete_form(page_id, form_data)
        c == get_confluence_client(client, has_env)
        f == gateway_fetch(st, page_id)
    IN  IF invalid # <<>>
        THEN Step("done", client, NoPage, <<>>, Raise(invalid))
        ELSE IF ~c.ok
        THEN Step("done", c.client, NoPage, <<GetClientCall>>,
                  Raise(<<"Missing required Confluence environment variables">>))
        ELSE IF gw = "fail"
        THEN Step("done", c.client, NoPage,
                  <<GetClientCall, FetchCall(page_id)>>,
                  Raise(<<"UpstreamFailure">>))
        ELSE IF ~f.found
        THEN Step("done", c.client, NoPage,
                  <<GetClientCall, FetchCall(page_id)>>,
                  Raise(<<"Page ", page_id, " not found">>))
        ELSE Step("fetched", c.client, f.page,
                  <<GetClientCall, FetchCall(page_id)>>, NoResult)

Written(st, cr, calls, outcome) ==
    [store |-> st, created |-> cr, calls |-> calls, outcome |-> outcome]

\* complete_form from the classification to the outcome of its one write
\* (lines 141-194)
complete_form_body(arguments, page, st, cr, gw, timestamp) ==
    LET page_id == arg_get(arguments, "page_id", None)
        form_data == arg_get(arguments, "form_data", <<>>)
        space_key == resolve_space_key(arg_get(arguments, "space_key", None), page)
        create_summary_page == arg_get(arguments, "create_summary_page", TRUE)
        current_content == page.content
    IN  IF is_smart_forms(current_content) /\ create_summary_page
        THEN LET title == summary_title(page, form_data)
                 summary_body == create_form_summary_page(form_data, page, timestamp)
                 n == gateway_create(cr, space_key, title, summary_body, page_id)
             IN  IF gw = "fail"
                 THEN Written(st, cr,
                        <<CreateCall(space_key, title, summary_body, page_id, FALSE)>>,
                        Raise(<<"UpstreamFailure">>))
                 ELSE Written(st, n.created,
                        <<CreateCall(space_key, title, summary_body, page_id, TRUE)>>,
                        Return([shape |-> "summary", success |-> TRUE,
                                original_page_id |-> page_id,
                                original_page_title |-> page.title,
                                summary_page_id |-> n.id,
                                summary_page_title |-> title,
                                form_data |-> form_data]))
        ELSE LET m == update_form_fields(current_content, form_data)
                 version == update_version(page)
                 u == gateway_update(st, page_id, page.title, m.content, version)
             IN  IF ~m.ok
                 THEN Written(st, cr, <<>>, Raise(<<"re.error">>))
                 ELSE IF gw = "fail"
                 THEN Written(st, cr,
                        <<UpdateCall(page_id, page.title, m.content, version, FALSE)>>,
                        Raise(<<"UpstreamFailure">>))
                 ELSE IF ~u.ok
                 THEN Written(st, cr,
                        <<UpdateCall(page_id, page.title, m.content, version, FALSE)>>,
                        Raise(<<"VersionConflict">>))
                 ELSE Written(u.store, cr,
                        <<UpdateCall(page_id, page.title, m.content, version, TRUE)>>,
                        Return([shape |-> "updated", success |-> TRUE,
                                page_id |-> page_id, page_title |-> page.title,
                                updated_fields |-> dict_keys(form_data)]))

\* a complete_form that answers a version conflict by fetching the page
\* again and issuing the update once more
complete_form_write_retry(arguments, page, st, cr, gw, timestamp) ==
    LET w == complete_form_body(arguments, page, st, cr, gw, timestamp)
        page_id == arg_get(arguments, "page_id", None)
        again == complete_form_body(arguments, gateway_fetch(st, page_id).page,
                                    st, cr, gw, timestamp)
    IN  IF w.outcome.msg = <<"VersionConflict">>
        THEN Written(again.store, again.created,
                     w.calls \o <<FetchCall(page_id)>> \o again.calls,
                     again.outcome)
        ELSE w

\* the try block of complete_form with its handler (lines 132, 196-198):
\* whatever the body raises is logged and raised again, nothing is retried
complete_form_write(arguments, page, st, cr, gw, timestamp) ==
    complete_form_body(arguments, page, st, cr, gw, timestamp)

\* get_form_structure (lines 201-236)
get_form_structure(arguments, client, has_env, st, gw) ==
    LET page_id == arg_get(arguments, "page_id", None)
        c == get_confluence_client(client, has_env)
        f == gateway_fetch(st, page_id)
        content == f.page.content
    IN  IF Falsy(page_id)
        THEN Step("done", client, NoPage, <<>>, Raise(<<"page_id is required">>))
        ELSE IF ~c.ok
        THEN Step("done", c.client, NoPage, <<GetClientCall>>,
                  Raise(<<"Missing required Confluence environment variables">>))
        ELSE IF gw = "fail"
        THEN Step("done", c.client, NoPage,
                  <<GetClientCall, FetchCall(page_id)>>,
                  Raise(<<"UpstreamFailure">>))
        ELSE IF ~f.found
        THEN Step("done", c.client, NoPage,
                  <<GetClientCall, FetchCall(page_id)>>,
                  Raise(<<"Page ", page_id, " not found">>))
        ELSE Step("done", c.client, f.page,
                  <<GetClientCall, FetchCall(page_id)>>,
                  Return([shape |-> "structure", page_id |-> page_id,
                          page_title |-> f.page.title,
                          form_fields |-> extract_form_fields(content),
                          raw_content_preview |->
                              IF Len(content) > PreviewLen
                              THEN SubSeq(content, 1, PreviewLen)
                              ELSE content]))

\* the dispatch of call_tool (lines 105-110)
call_tool_dispatch(name, arguments, client, has_env, st, gw) ==
    IF name = "complete_confluence_form"
    THEN complete_form_start(arguments, client, has_env, st, gw)
    ELSE IF name = "get_form_structure"
    THEN get_form_structure(arguments, client, has_env, st, gw)
    ELSE Step("done", client, NoPage, <<>>, Raise(<<"Unknown tool: ", name>>))

call_tool_reraise(outcome) == outcome

\* the except clause of call_tool (lines 111-116): an exception becomes the
\* returned text 'Error: <message>'
call_tool_except(outcome) ==
    IF outcome.kind = "raise"
    THEN [kind |-> "return", error |-> TRUE, msg |-> <<"Error: ">> \o outcome.msg,
          body |-> NoBody]
    ELSE outcome

(***************************************************************************)
(* The tool calls the processes are asked to serve                         *)
(***************************************************************************)
FdX == <<Field(<<"x">>, StrVal(<<"1">>))>>
FdXP == <<Field(<<"x">>, IntVal(4)), Field(<<"p","r","o","j","e","c","t","_","n","a","m","e">>, StrVal(<<"P","&","Q">>))>>
FdBackslash == <<Field(<<"y">>, StrVal(<<"C",":","\\","q">>))>>

ToolCall(name, arguments) == [name |-> name, arguments |-> arguments]

ToolCalls ==
    { ToolCall("complete_confluence_form", <<>>),
      ToolCall("complete_confluence_form", [page_id |-> "", form_data |-> FdX]),
      ToolCall("complete_confluence_form", [page_id |-> "100"]),
      ToolCall("complete_confluence_form", [page_id |-> "100", form_data |-> <<>>]),
      ToolCall("complete_confluence_form", [page_id |-> "100", form_data |-> FdX]),
      ToolCall("complete_confluence_form", [page_id |-> "100", form_data |-> FdBackslash]),
      ToolCall("complete_confluence_form", [page_id |-> "200", form_data |-> FdXP]),
      ToolCall("complete_confluence_form",
               [page_id |-> "200", form_data |-> FdX, space_key |-> "OPS",
                create_summary_page |-> TRUE]),
      ToolCall("complete_confluence_form",
               [page_id |-> "200", form_data |-> FdX, space_key |-> ""]),
      ToolCall("complete_confluence_form",
               [page_id |-> "200", form_data |-> FdX,
                create_summary_page |-> FALSE]),
      ToolCall("complete_confluence_form", [page_id |-> "404", form_data |-> FdX]),
      ToolCall("get_form_structure", [page_id |-> "100"]),
      ToolCall("delete_page", [page_id |-> "100"]) }

GatewayOutcomes == {"ok", "fail"}

\* the version the stored pages start from: a fresh page, and one edited before
InitVersions == {1, 3}

Init ==
    /\ \E v \in InitVersions : store = InitialStore(v, v)
    /\ created = <<>>
    /\ \E b \in BOOLEAN : env = [p \in Procs |-> IF p = "w2" THEN b ELSE TRUE]
    /\ confluence_client = [p \in Procs |-> FALSE]
    /\ inv = [p \in Procs |-> IdleInv]
    /\ served = [p \in Procs |-> <<>>]
    /\ pure = [fn |-> "off"]

\* tool calls started so far: the finished ones and those awaiting the store
CallsStarted ==
    LET n(q) == Len(served[q]) + (IF inv[q].pc = "fetched" THEN 1 ELSE 0)
    IN  n("w1") + n("w2")

\* the clock readings of the runs with a store (RenderSpec draws from all
\* of Timestamps)
OrchTimestamps == {ts \in Timestamps : ts[4] = "4"}

ServedAs(result) ==
    IF result.kind = "raise" THEN "raised"
    ELSE IF result.error THEN "error" ELSE "ok"

\* call_tool(name, arguments) up to the first point where it waits for the
\* store: the whole call when it fails early or is get_form_structure,
\* otherwise up to the return of the fetch
CallTool(p) ==
    /\ inv[p].pc \in {"idle", "done"}
    /\ CallsStarted < MaxCalls
    /\ \E tc \in ToolCalls, gw \in GatewayOutcomes :
          \E r \in {call_tool_dispatch(tc.name, tc.arguments,
                                       confluence_client[p], env[p], store, gw)} :
          \E result \in {call_tool_except(r.outcome)} :
              \* an upstream failure needs a fetch to fail
              /\ gw = "fail" => Len(r.calls) = 2
              /\ confluence_client' = [confluence_client EXCEPT ![p] = r.client]
              /\ IF r.pc = "done"
                 THEN /\ inv' = [inv EXCEPT ![p] =
                            [pc |-> IF result.kind = "raise" THEN "crashed" ELSE "done",
                             name |-> tc.name, arguments |-> tc.arguments,
                             page |-> r.page, calls |-> r.calls,
                             result |-> result]]
                      /\ served' = [served EXCEPT ![p] = Append(@, ServedAs(result))]
                 ELSE /\ inv' = [inv EXCEPT ![p] =
                            [pc |-> "fetched", name |-> tc.name,
                             arguments |-> tc.arguments, page |-> r.page,
                             calls |-> r.calls, result |-> NoResult]]
                      /\ served' = served
    /\ UNCHANGED <<store, created, env, pure>>

\* the rest of complete_form: classification, the one write, the result
CompleteWrite(p) ==
    /\ inv[p].pc = "fetched"
    /\ \E gw \in GatewayOutcomes, ts \in OrchTimestamps :
          \E w \in {complete_form_write(inv[p].arguments, inv[p].page, store,
                                        created, gw, ts)} :
          \E result \in {call_tool_except(w.outcome)} :
              \* an upstream failure needs a write to fail
              /\ gw = "fail" => w.calls # <<>>
              /\ store' = w.store
              /\ created' = w.created
              /\ inv' = [inv EXCEPT ![p] =
                    [@ EXCEPT !.pc = IF result.kind = "raise" THEN "crashed" ELSE "done",
                              !.calls = @ \o w.calls,
                              !.result = result]]
              /\ served' = [served EXCEPT ![p] = Append(@, ServedAs(result))]
    /\ UNCHANGED <<env, confluence_client, pure>>

Next == \E p \in Procs : CallTool(p) \/ CompleteWrite(p)

Spec == Init /\ [][Next]_vars

(***************************************************************************)
(* Properties of the tool calls                                            *)
(***************************************************************************)
Done(p) == inv[p].pc = "done"
IsCompleteForm(iv) == iv.name = "complete_confluence_form"
CallsOf(iv, op) == SelectSeq(iv.calls, LAMBDA c : c.op = op)
PageIdOf(iv) == iv.arguments.page_id
FormDataOf(iv) == iv.arguments.form_data

\* the arguments lack a usable page_id / form_data
PageIdMissing(a) == "page_id" \notin DOMAIN a \/ a.page_id \in {"", None}
FormDataMissing(a) == "form_data" \notin DOMAIN a \/ a.form_data = <<>>

\* the fetched page is an external (iframe) form
FetchedExternal(iv) ==
    HasDomainLiteral(iv.page.content) \/ HasIframeAnyCase(iv.page.content)

\* create_summary_page as given, TRUE when left out
WantsSummary(iv) ==
    IF "create_summary_page" \in DOMAIN iv.arguments
    THEN iv.arguments.create_summary_page ELSE TRUE

\* a complete_form call that has fetched its page
FetchedForm(iv) == IsCompleteForm(iv) /\ iv.page # NoPage

\* process p has, in this step, finished the write of a complete_form call
FinishesWrite(p) == inv[p].pc = "fetched" /\ inv'[p].pc # "fetched"

\* C1: on a page classified NATIVE, or EXTERNAL with create_summary_page
\* false, complete_form issues exactly one update for the same page with
\* version = fetched version + 1, the fetched title and the merged body, and
\* no create; once the store accepts it, the result lists the submitted
\* field names in order.
C1_UpdatePath ==
    \A p \in Procs :
        LET iv == inv[p]
            ups == CallsOf(iv, "update")
        IN  (Done(p) /\ FetchedForm(iv)
             /\ (~FetchedExternal(iv) \/ ~WantsSummary(iv))) =>
                /\ Len(ups) = 1
                /\ ups[1].page_id = PageIdOf(iv)
                /\ ups[1].version = iv.page.version + 1
                /\ ups[1].title = iv.page.title
                /\ ups[1].body =
                      update_form_fields(iv.page.content, FormDataOf(iv)).content
                /\ CallsOf(iv, "create") = <<>>
                /\ ups[1].accepted =>
                      /\ iv.result.body.shape = "updated"
                      /\ iv.result.body.updated_fields =
                            [k \in 1..Len(FormDataOf(iv)) |-> FormDataOf(iv)[k].name]

\* C2: on a page classified EXTERNAL with create_summary_page true (the
\* default), complete_form issues exactly one create with parent_id = the
\* original page id and space = the space_key argument, or the fetched
\* page's space key when that is absent or empty; it issues no update, and
\* the step leaves every stored page as it was.
C2_SummaryPath ==
    [][\A p \in Procs :
          LET iv == inv'[p]
              crs == CallsOf(iv, "create")
          IN  (FinishesWrite(p) /\ FetchedExternal(iv) /\ WantsSummary(iv)) =>
                /\ Len(crs) = 1
                /\ crs[1].parent_id = PageIdOf(iv)
                /\ crs[1].space =
                      IF "space_key" \in DOMAIN iv.arguments
                         /\ iv.arguments.space_key \notin {"", None}
                      THEN iv.arguments.space_key
                      ELSE iv.page.space
                /\ CallsOf(iv, "update") = <<>>
                /\ store' = store]_vars

\* a summary page was created under page 200 in the space given explicitly,
\* and page 200 is as it started
C2_Witness ==
    \E p \in Procs :
        /\ Done(p) /\ FetchedForm(inv[p])
        /\ inv[p].result.body.shape = "summary"
        /\ "space_key" \in DOMAIN inv[p].arguments
        /\ inv[p].arguments.space_key = "OPS"
        /\ Len(created) = 1
        /\ created[1].space = "OPS" /\ created[1].parent_id = "200"
        /\ store["200"].content = ExternalContent

\* C3: complete_form without a page_id or without form_data fails with the
\* argument error before any Gateway call: the call ends in the same step
\* with no client set up and no fetch, update or create, and the store is
\* unchanged.
C3_ValidationFirst ==
    [][\A p \in Procs :
          LET iv == inv'[p]
          IN  ((inv'[p] # inv[p] \/ served'[p] # served[p])
               /\ IsCompleteForm(iv)
               /\ (PageIdMissing(iv.arguments) \/ FormDataMissing(iv.arguments))) =>
                /\ iv.pc = "done"
                /\ iv.result.error
                /\ iv.result.msg \in {<<"Error: ", "page_id is required">>,
                                      <<"Error: ", "form_data is required">>}
                /\ iv.calls = <<>>
                /\ confluence_client' = confluence_client
                /\ store' = store
                /\ created' = created]_vars

\* a call with a page id and an empty form_data has been turned down
C3_Witness ==
    \E p \in Procs :
        /\ Done(p) /\ IsCompleteForm(inv[p])
        /\ ~PageIdMissing(inv[p].arguments)
        /\ "form_data" \in DOMAIN inv[p].arguments
        /\ inv[p].arguments.form_data = <<>>
        /\ inv[p].result.msg = <<"Error: ", "form_data is required">>
        /\ inv[p].calls = <<>>

\* C4: call_tool never raises: every finished call has returned a text, a
\* failure as 'Error: <message>', and the process stays able to serve.
C4_NeverRaises ==
    \A p \in Procs :
        /\ inv[p].pc # "crashed"
        /\ \A k \in 1..Len(served[p]) : served[p][k] \in {"ok", "error"}
        /\ Done(p) =>
              /\ inv[p].result.kind = "return"
              /\ inv[p].result.error =>
                    /\ Len(inv[p].result.msg) >= 2
                    /\ Head(inv[p].result.msg) = "Error: "
                    /\ inv[p].result.body = NoBody
              /\ ~inv[p].result.error => inv[p].result.body # NoBody

\* a process has failed one call and then served the next
C4_Witness ==
    \E p \in Procs :
        /\ served[p] = <<"error", "ok">>
        /\ Done(p)
        /\ inv[p].result.body # NoBody

\* an update of process p was accepted by the store
Accepted(p) ==
    \E k \in 1..Len(inv[p].calls) :
        inv[p].calls[k].op = "update" /\ inv[p].calls[k].accepted

IssuedUpdate(p) == CallsOf(inv[p], "update") # <<>>

\* the state part of C5
C5_AtMostOneAccepted ==
    \A p, q \in Procs :
        (/\ p # q
         /\ Done(p) /\ Done(q)
         /\ FetchedForm(inv[p]) /\ FetchedForm(inv[q])
         /\ IssuedUpdate(p) /\ IssuedUpdate(q)
         /\ PageIdOf(inv[p]) = PageIdOf(inv[q])
         /\ inv[p].page.version = inv[q].page.version) =>
            /\ ~(Accepted(p) /\ Accepted(q))
            /\ \A r \in {p, q} :
                  /\ Len(CallsOf(inv[r], "fetch")) = 1
                  /\ Len(CallsOf(inv[r], "update")) = 1
                  /\ ~Accepted(r) =>
                        inv[r].result.msg \in {<<"Error: ", "VersionConflict">>,
                                               <<"Error: ", "UpstreamFailure">>}

\* C5: of two complete_form calls that fetched the same version of the same
\* page and both issued an update, at most one is accepted; the other ends
\* as a failure after its one fetch and one update (no retry); and a stored
\* version never decreases.
C5_ConflictNoRetry ==
    /\ []C5_AtMostOneAccepted
    /\ [][\A id \in PageIds : store'[id].version >= store[id].version]_vars

\* both processes updated page 100 from the same fetched version: one was
\* accepted, the other got the version conflict
C5_Witness ==
    /\ Done("w1") /\ Done("w2")
    /\ IssuedUpdate("w1") /\ IssuedUpdate("w2")
    /\ PageIdOf(inv["w1"]) = PageIdOf(inv["w2"])
    /\ inv["w1"].page.version = inv["w2"].page.version
    /\ Accepted("w1")
    /\ inv["w2"].result.msg = <<"Error: ", "VersionConflict">>

\* C6 as stated: every update supplies the version its own fetch read
C6_SuppliesObservedVersion ==
    \A p \in Procs :
        \A k \in 1..Len(inv[p].calls) :
            inv[p].calls[k].op = "update" =>
                inv[p].calls[k].version = inv[p].page.version

\* C6: every update supplies the successor of the version its own fetch
\* read; the store accepts it only as the successor of the stored version
\* and makes it the stored version in that step (an increment by one), and
\* an update that is not accepted changes nothing.
C6_SuppliesSuccessorVersion ==
    [][\A p \in Procs :
          FinishesWrite(p) =>
              \A k \in 1..Len(inv'[p].calls) :
                  LET c == inv'[p].calls[k]
                  IN  c.op = "update" =>
                        /\ c.version = inv'[p].page.version + 1
                        /\ c.accepted =>
                              /\ store'[c.page_id].version = c.version
                              /\ store'[c.page_id].version =
                                    store[c.page_id].version + 1
                        /\ ~c.accepted => store' = store]_vars

\* page 100, fetched at version 3, has been updated to version 4
C6_Witness ==
    \E p \in Procs :
        /\ Done(p) /\ Accepted(p)
        /\ inv[p].page.version = 3
        /\ PageIdOf(inv[p]) = "100"
        /\ store["100"].version = 4

\* the calls an invocation made on the Gateway, in the order it made them
\* (setting up the client is not one)
GatewayCalls(iv) ==
    SelectSeq(iv.calls, LAMBDA c : c.op \in {"fetch", "update", "create"})

IsWrite(c) == c.op \in {"update", "create"}

\* the invocation is of one of the two tools and got past the checks of its
\* arguments
PassedValidation(iv) ==
    \/ iv.name = "get_form_structure" /\ ~PageIdMissing(iv.arguments)
    \/ /\ IsCompleteForm(iv)
       /\ ~PageIdMissing(iv.arguments)
       /\ ~FormDataMissing(iv.arguments)

\* the state part of C11
C11_FetchThenOneWrite ==
    \A p \in Procs :
        LET iv == inv[p]
            g == GatewayCalls(iv)
        IN  /\ Len(CallsOf(iv, "fetch")) <= 1
            /\ (PassedValidation(iv) /\ confluence_client[p]) =>
                  Len(CallsOf(iv, "fetch")) = 1
            /\ g # <<>> => (g[1].op = "fetch" /\ g[1].page_id = PageIdOf(iv))
            /\ Len(g) <= 2
            /\ Len(g) = 2 =>
                  /\ IsWrite(g[2])
                  /\ IsCompleteForm(iv)
                  /\ iv.page # NoPage
                  /\ PageIdOf(iv) \in PageIds
            /\ (g # <<>> /\ iv.page = NoPage) =>
                  /\ Len(g) = 1
                  /\ Done(p)
                  /\ iv.result.error
                  /\ iv.result.msg \in
                        {<<"Error: ", "Page ", PageIdOf(iv), " not found">>,
                         <<"Error: ", "UpstreamFailure">>}
            /\ iv.name = "get_form_structure" =>
                  \A k \in 1..Len(g) : ~IsWrite(g[k])

\* C11: the Gateway calls of one invocation are sequential: one fetch comes
\* first, and a write (one create or one update, never both, never two) is
\* issued only in a later step, after that fetch has returned a page; when
\* the fetch returns no page or fails the invocation fails (NotFound,
\* operation failure) with no write; get_form_structure never writes. (An
\* invocation turned down before it reaches the Gateway issues no call.)
C11_SequentialGateway ==
    /\ []C11_FetchThenOneWrite
    /\ [][\A p \in Procs :
            LET g == GatewayCalls(inv[p])
                h == GatewayCalls(inv'[p])
            IN  (\E k \in 1..Len(h) : IsWrite(h[k])) /\ inv'[p] # inv[p] =>
                    /\ inv[p].pc = "fetched"
                    /\ inv[p].page # NoPage
                    /\ inv'[p].page = inv[p].page
                    /\ Len(g) = 1 /\ g[1].op = "fetch"
                    /\ Len(h) = 2 /\ h[1] = g[1]]_vars

\* one process has fetched page 200 and then created its summary page; the
\* other asked for a page that is not stored and ended after its fetch
C11_Witness ==
    \E p, q \in Procs :
        /\ p # q /\ Done(p) /\ Done(q)
        /\ Len(GatewayCalls(inv[p])) = 2
        /\ GatewayCalls(inv[p])[1].op = "fetch"
        /\ GatewayCalls(inv[p])[2].op = "create"
        /\ Len(GatewayCalls(inv[q])) = 1
        /\ inv[q].page = NoPage
        /\ inv[q].result.msg = <<"Error: ", "Page ", "404", " not found">>

(***************************************************************************)
(* Properties of extract_form_fields: types and names                      *)
(***************************************************************************)
\* positions, on the tag of the name attribute that ends before e, where a
\* type="identifier" attribute stands
TypeAttrsAfter(c, e) ==
    {j \in e..Len(c) :
        /\ \A k \in e..(j - 1) : c[k] # ">"
        /\ StartsAt(c, j, TypeEqQuote)
        /\ IdentLen(c, j + 6, <<Quote>>) > 0}

\* C12: in the form-input pass every match of name="identifier" yields a
\* descriptor whose type is the identifier of a type="identifier" attribute
\* that follows the name on the same tag, and 'text' only when there is no
\* such attribute.
C12_TypeCaptured ==
    pure.fn = "extract" =>
        LET c == pure.content
            is == InputStarts(c)
            np == Cardinality(PlaceholderStarts(c))
        IN  \A k \in 1..Cardinality(is) :
                LET i == KthSmallest(is, k)
                    e == i + 6 + IdentLen(c, i + 6, <<Quote>>) + 1
                    ts == TypeAttrsAfter(c, e)
                    d == pure.out[np + k]
                IN  /\ d.source = "form_input"
                    /\ ts = {} => d.type = TextType
                    /\ ts # {} =>
                          d.type \in {SubSeq(c, j + 6,
                                             j + 5 + IdentLen(c, j + 6, <<Quote>>)) :
                                         j \in ts}

(***************************************************************************)
(* Properties of update_form_fields applied twice                          *)
(***************************************************************************)
\* no {{identifier}} token stands in c
NoResidualTokens(c) == PlaceholderStarts(c) = {}

\* C13: for any content with no residual {{...}} token and any form_data,
\* merge applied to what merge returned, with the same form_data, returns
\* the same text: merge(merge(content, data), data) = merge(content, data).
C13_MergeIdempotent ==
    (pure.fn = "merge_again" /\ NoResidualTokens(pure.content)) =>
        (pure.again.ok /\ pure.again.content = pure.out.content)

\* the descriptors of one pass in what extract_form_fields returned
OfPass(out, source) == SelectSeq(out, LAMBDA d : d.source = source)

\* C14 as stated: within a discovery pass no two descriptors share a name
C14_NamesUniqueWithinPass ==
    pure.fn = "extract" =>
        \A i, j \in 1..Len(pure.out) :
            (pure.out[i].source = pure.out[j].source
             /\ pure.out[i].name = pure.out[j].name) => i = j

\* the name of the placeholder token / of the name attribute that starts at i
PlaceholderNameAt(c, i) ==
    SubSeq(c, i + 2, i + 1 + IdentLen(c, i + 2, CloseBraces))
InputNameAt(c, i) ==
    SubSeq(c, i + 6, i + 5 + IdentLen(c, i + 6, <<Quote>>))

\* C14: each discovery pass yields one descriptor per match, with no
\* deduplication of names: a pass holds as many descriptors of a name as the
\* content holds matches of that name, so a name stands twice in a pass
\* exactly when its token or attribute is matched twice.
C14_OneDescriptorPerMatch ==
    pure.fn = "extract" =>
        LET c == pure.content
            ps == OfPass(pure.out, "placeholder")
            is == OfPass(pure.out, "form_input")
        IN  /\ \A k \in 1..Len(ps) :
                  Cardinality({j \in 1..Len(ps) : ps[j].name = ps[k].name}) =
                  Cardinality({i \in PlaceholderStarts(c) :
                                  PlaceholderNameAt(c, i) = ps[k].name})
            /\ \A k \in 1..Len(is) :
                  Cardinality({j \in 1..Len(is) : is[j].name = is[k].name}) =
                  Cardinality({i \in InputStarts(c) :
                                  InputNameAt(c, i) = is[k].name})
            /\ Len(ps) = Cardinality(PlaceholderStarts(c))
            /\ Len(is) = Cardinality(InputStarts(c))

\* two tags carry name="a": the form-input pass reports the name twice
C14_Witness ==
    /\ pure.fn = "extract"
    /\ Len(pure.out) = 2
    /\ pure.out[1].source = "form_input"
    /\ pure.out[2].source = "form_input"
    /\ pure.out[1].name = pure.out[2].name
    /\ Cardinality(InputStarts(pure.content)) = 2

(***************************************************************************)
(* Properties of the update path                                           *)
(***************************************************************************)
\* C15: on the update path (a NATIVE page, or create_summary_page false)
\* the update is issued unconditionally, with version = fetched version + 1:
\* also when no submitted field matches anything in the page, and the body
\* written is then the fetched content; once the store accepts it the result
\* reports success with every submitted field name in updated_fields, and
\* the stored version has advanced by one.
C15_UnconditionalUpdate ==
    \A p \in Procs :
        LET iv == inv[p]
            ups == CallsOf(iv, "update")
            fd == FormDataOf(iv)
        IN  (Done(p) /\ FetchedForm(iv)
             /\ ~(FetchedExternal(iv) /\ WantsSummary(iv))) =>
                /\ Len(ups) = 1
                /\ ups[1].version = iv.page.version + 1
                /\ (\A k \in 1..Len(fd) : FieldAbsent(iv.page.content, fd[k])) =>
                      ups[1].body = iv.page.content
                /\ ups[1].accepted =>
                      /\ ~iv.result.error
                      /\ iv.result.body.success
                      /\ iv.result.body.updated_fields = dict_keys(fd)
                      /\ store[PageIdOf(iv)].version >= iv.page.version + 1

====
